---- MODULE Spec2Model ----
(***************************************************************************)
(* Car Replacement Decision Support System (IDSSstreamlit.py).             *)
(*                                                                         *)
(* Numbers.  The program computes in binary floating point (Python float   *)
(* and numpy.float64, both IEEE-754 doubles, round to nearest, ties to     *)
(* even).  A number is modelled as a pair <<n, d>>: a rational n/d in      *)
(* lowest terms with d > 0, or one of the IEEE special values, written     *)
(* with d = 0.  Every arithmetic operation of the program is the exact     *)
(* operation followed by rounding to Prec significant bits (Prec is 53 in  *)
(* the program; the exponent range is not bounded here, so overflow and    *)
(* underflow do not occur).                                                *)
(***************************************************************************)
EXTENDS Integers, Sequences, FiniteSets, TLC

\* ---------------------------------------------------------------- bounds
Prec == 6          \* significant bits of a float
MaxPV == 12        \* present values drawn for the cost-scores: k/3, |k| <= MaxPV
MaxCost == 5       \* operating costs drawn for a history: k/3, 0 <= k <= MaxCost
MaxX == 5          \* period-0 flows drawn for calculate_pv: k/3, |k| <= MaxX

\* ------------------------------------------------------- exact rationals
Abs(i) == IF i < 0 THEN -i ELSE i

RECURSIVE Gcd(_, _)
Gcd(a, b) == IF b = 0 THEN a ELSE Gcd(b, a % b)

RECURSIVE Pow2(_)
Pow2(k) == IF k = 0 THEN 1 ELSE 2 * Pow2(k - 1)

Norm(n, d) ==
    LET g == Gcd(Abs(n), Abs(d))
        s == IF d < 0 THEN -1 ELSE 1
    IN  <<(s * n) \div g, (s * d) \div g>>

I(k) == <<k, 1>>
Q(n, d) == Norm(n, d)

NaN == <<0, 0>>
Inf == <<1, 0>>
NInf == <<-1, 0>>
None == <<2, 0>>

IsFinite(x) == x[2] > 0
IsNaN(x) == x = NaN

RAdd(x, y) == Norm(x[1] * y[2] + y[1] * x[2], x[2] * y[2])
RNeg(x) == <<-x[1], x[2]>>
RSub(x, y) == RAdd(x, RNeg(y))
RMul(x, y) == Norm(x[1] * y[1], x[2] * y[2])
RDiv(x, y) == Norm(x[1] * y[2], x[2] * y[1])
RLt(x, y) == x[1] * y[2] < y[1] * x[2]
RAbs(x) == <<Abs(x[1]), x[2]>>

\* ------------------------------------------------------- float rounding
\* Scale(n, d, fn, fd): n/d > 0; returns <<n', d', fn', fd'>> with
\* 2^(Prec-1) <= n'/d' < 2^Prec and n/d * fn/fd constant.
RECURSIVE Scale(_, _, _, _)
Scale(n, d, fn, fd) ==
    IF n >= Pow2(Prec) * d THEN Scale(n, 2 * d, 2 * fn, fd)
    ELSE IF n < Pow2(Prec - 1) * d THEN Scale(2 * n, d, fn, 2 * fd)
    ELSE <<n, d, fn, fd>>

\* round to nearest, ties to even: mantissa m, remainder r of the division by d
RoundMant(m, r, d) ==
    IF (2 * r > d) \/ (2 * r = d /\ m % 2 = 1) THEN m + 1 ELSE m

\* s: the scaled magnitude <<n', d', fn', fd'>>; sg: the sign
RndScaled(s, sg) ==
    Norm(sg * RoundMant(s[1] \div s[2], s[1] % s[2], s[2]) * s[3], s[4])

\* round to Prec significant bits
Rnd(x) ==
    IF x[1] = 0 THEN x
    ELSE RndScaled(Scale(Abs(x[1]), x[2], 1, 1), IF x[1] < 0 THEN -1 ELSE 1)

FAdd(x, y) == Rnd(RAdd(x, y))
FSub(x, y) == Rnd(RSub(x, y))
FMul(x, y) == Rnd(RMul(x, y))
FDiv(x, y) == Rnd(RDiv(x, y))
FNeg(x) == RNeg(x)

\* float ** int (float_pow), by repeated rounded multiplication; x ** 0 is 1.0
RECURSIVE FPow(_, _)
FPow(x, k) == IF k = 0 THEN I(1) ELSE FMul(FPow(x, k - 1), x)

F(n, d) == Rnd(Q(n, d))

\* IEEE arithmetic on the special values (numpy.float64 operands)
XAdd(x, y) ==
    IF IsFinite(x) /\ IsFinite(y) THEN FAdd(x, y)
    ELSE IF IsNaN(x) \/ IsNaN(y) THEN NaN
    ELSE IF IsFinite(x) THEN y
    ELSE IF IsFinite(y) THEN x
    ELSE IF x = y THEN x ELSE NaN

XMul(x, y) ==
    IF IsFinite(x) /\ IsFinite(y) THEN FMul(x, y)
    ELSE IF IsNaN(x) \/ IsNaN(y) THEN NaN
    ELSE IF x[1] = 0 \/ y[1] = 0 THEN NaN
    ELSE IF (x[1] > 0) = (y[1] > 0) THEN Inf ELSE NInf

\* x > y; every comparison with nan is False
XGt(x, y) ==
    IF IsNaN(x) \/ IsNaN(y) THEN FALSE
    ELSE IF IsFinite(x) /\ IsFinite(y) THEN RLt(y, x)
    ELSE IF x = y THEN FALSE
    ELSE x = Inf \/ y = NInf

\* numpy.float64 division x / y with y = 0.0: inf, -inf or nan (RuntimeWarning)
NpDivByZero(x) == IF x[1] = 0 THEN NaN ELSE IF x[1] > 0 THEN Inf ELSE NInf

\* ------------------------------------------------------ helper functions
Factors == {"cost", "style", "reliability", "fuel_economy", "safety"}

calculate_weighted_score(cost_score, style_score, reliability_score, fuel_economy_score, safety_score, weights) ==
    XAdd(XAdd(XAdd(XAdd(XMul(I(weights["cost"]), cost_score),
                        XMul(I(weights["style"]), style_score)),
                   XMul(I(weights["reliability"]), reliability_score)),
              XMul(I(weights["fuel_economy"]), fuel_economy_score)),
         XMul(I(weights["safety"]), safety_score))

Ok(v) == [err |-> "none", val |-> v]
Raise(e) == [err |-> e, val |-> None]

\* sum(terms), starting from 0 and adding left to right
RECURSIVE SumTo(_, _)
SumTo(terms, k) == IF k = 0 THEN I(0) ELSE FAdd(SumTo(terms, k - 1), terms[k])

\* mutant: enumerate(cash_flows, start=1), so period 0 is discounted once
calculate_pv_start1(cash_flows, discount_rate) ==
    LET base == FAdd(I(1), discount_rate)
        divisor(t) == FPow(base, t)
        years == 1..Len(cash_flows)
    IN  IF \E t \in years : divisor(t)[1] = 0
        THEN Raise("ZeroDivisionError")
        ELSE Ok(SumTo([k \in 1..Len(cash_flows) |->
                          FDiv(cash_flows[k], divisor(k))],
                      Len(cash_flows)))

\* cash_flows[t + 1] is the flow of year t (enumerate(cash_flows, start=0));
\* the flows are Python numbers, so a zero divisor raises ZeroDivisionError
calculate_pv(cash_flows, discount_rate) ==
    LET base == FAdd(I(1), discount_rate)
        divisor(t) == FPow(base, t)
        years == 0..(Len(cash_flows) - 1)
    IN  IF \E t \in years : divisor(t)[1] = 0
        THEN Raise("ZeroDivisionError")
        ELSE Ok(SumTo([k \in 1..Len(cash_flows) |->
                          FDiv(cash_flows[k], divisor(k - 1))],
                      Len(cash_flows)))

\* LinearRegression().fit([[1],[2],[3]], y).predict([[x]]): the least-squares
\* line through (1,y1),(2,y2),(3,y3), slope (y3-y1)/2 through (2, mean(y))
LinearRegressionPredict(y, x) ==
    LET mean == RDiv(RAdd(RAdd(y[1], y[2]), y[3]), I(3))
        slope == RDiv(RSub(y[3], y[1]), I(2))
    IN  Rnd(RAdd(mean, RMul(slope, I(x - 2))))

\* mutant: the prediction is returned unclamped
Max0Unclamped(cf) == cf

\* mutant: min(0, cf) in place of max(0, cf)
Min0(cf) == IF RLt(cf, I(0)) THEN cf ELSE I(0)

\* max(0, cf): cf when cf > 0, else the int 0
Max0(cf) == IF RLt(I(0), cf) THEN cf ELSE I(0)

predict_operating_costs(operating_costs) ==
    IF Len(operating_costs) # 3 THEN Raise("ValueError")
    ELSE Ok([k \in 1..5 |-> Max0(LinearRegressionPredict(operating_costs, k + 3))])

\* ------------------------------------------------------ predefined scores
reliability_scores ==
    ("Japanese" :> F(9, 10)) @@ ("Korean" :> F(8, 10)) @@
    ("American" :> F(8, 10)) @@ ("German" :> F(7, 10))

safety_scores ==
    ("Japanese" :> F(7, 10)) @@ ("Korean" :> F(8, 10)) @@
    ("American" :> F(85, 100)) @@ ("German" :> F(9, 10))

challenger_nationality ==
    ("Ford Explorer" :> "American") @@ ("Honda Accord" :> "Japanese") @@
    ("Nissan Altima" :> "Japanese") @@ ("Toyota Camry" :> "Japanese") @@
    ("Hyundai Sonata" :> "Korean") @@ ("BMW 5 Series" :> "German")

depreciation_rates ==
    ("American" :> F(15, 100)) @@ ("Japanese" :> F(11, 100)) @@
    ("German" :> F(18, 100)) @@ ("Korean" :> F(13, 100))

\* dict.get(key, default)
Get(dict, key, default) == IF key \in DOMAIN dict THEN dict[key] ELSE default

InputFields ==
    {"defender_market_value", "defender_operating_costs",
     "defender_fuel_economy_kmpl", "style_score_defender_input",
     "origin_defender", "challenger_car", "style_score_challenger_input",
     "weights"}

\* ----------------------------------------------------------- results page
\* the two quotients x / total_pv (cost_score_defender) and y / total_pv
\* (cost_score_challenger).  np: total_pv is a numpy.float64 (then a division
\* by 0.0 gives inf or nan with a warning); otherwise the operands are Python
\* floats and the division by 0.0 raises ZeroDivisionError.
Quotients(x, y, total_pv, np) ==
    IF total_pv[1] # 0
    THEN [err |-> "none", total_pv |-> total_pv,
          cost_score_defender |-> FDiv(x, total_pv),
          cost_score_challenger |-> FDiv(y, total_pv)]
    ELSE IF np
    THEN [err |-> "none", total_pv |-> total_pv,
          cost_score_defender |-> NpDivByZero(x),
          cost_score_challenger |-> NpDivByZero(y)]
    ELSE [err |-> "ZeroDivisionError", total_pv |-> total_pv,
          cost_score_defender |-> None, cost_score_challenger |-> None]

\* mutant: each option's cost-score is its own present value over the total
CostScoresOwn(defender_pv, challenger_pv, np) ==
    Quotients(defender_pv, challenger_pv, FAdd(defender_pv, challenger_pv), np)

\* mutant: total_pv is the difference of the present values
CostScoresDifference(defender_pv, challenger_pv, np) ==
    Quotients(challenger_pv, defender_pv, FSub(defender_pv, challenger_pv), np)

\* total_pv = defender_pv + challenger_pv and the two cost-scores: each
\* option's is the other option's present value over total_pv
CostScores(defender_pv, challenger_pv, np) ==
    Quotients(challenger_pv, defender_pv, FAdd(defender_pv, challenger_pv), np)

\* price * (1 - dep_rate) ** 5
ResidualValue(price, dep_rate) == FMul(price, FPow(FSub(I(1), dep_rate), 5))

\* [0] + [-cost for cost in predicted[:4]] + [-predicted[4] + residual]
CashFlowDefender(predicted, residual) ==
    <<I(0)>> \o [k \in 1..4 |-> FNeg(predicted[k])]
            \o <<FAdd(FNeg(predicted[5]), residual)>>

\* mutant: period 0 is price - market_value
CashFlowChallengerSwapped(market_value, price, costs, residual) ==
    <<FSub(price, market_value)>> \o [k \in 1..4 |-> FNeg(costs[k])]
                                 \o <<FAdd(FNeg(costs[5]), residual)>>

\* [market_value - price] + [-cost for cost in costs[:4]] + [-costs[4] + residual]
CashFlowChallenger(market_value, price, costs, residual) ==
    <<FSub(market_value, price)>> \o [k \in 1..4 |-> FNeg(costs[k])]
                                 \o <<FAdd(FNeg(costs[5]), residual)>>

\* mutant: >= in place of >
RecommendationGe(challenger_weighted_score, defender_weighted_score) ==
    IF XGt(challenger_weighted_score, defender_weighted_score)
       \/ (challenger_weighted_score = defender_weighted_score
           /\ ~IsNaN(challenger_weighted_score))
    THEN "replace" ELSE "keep"

\* 'Replace ...' if challenger_weighted_score > defender_weighted_score else 'Keep ...'
Recommendation(challenger_weighted_score, defender_weighted_score) ==
    IF XGt(challenger_weighted_score, defender_weighted_score)
    THEN "replace" ELSE "keep"

\* the locals of a run of the input branch: the results branch did not run
NotRun ==
    [err |-> "notrun", at |-> -1,
     predicted_defender_costs |-> <<>>, dep_rate_defender |-> None,
     dep_rate_challenger |-> None, residual_value_defender |-> None,
     residual_value_challenger |-> None, cash_flow_defender |-> <<>>,
     cash_flow_challenger |-> <<>>, defender_pv |-> None, challenger_pv |-> None,
     total_pv |-> None, cost_score_defender |-> None,
     cost_score_challenger |-> None, defender_weighted_score |-> None,
     challenger_weighted_score |-> None, recommendation |-> "none"]

\* The results branch, statement by statement.  L holds the locals assigned
\* so far, L.err the exception that ended the run ("none" while it runs) and
\* L.at the line that raised it; a step after an exception changes nothing.
Fail(L, e, line) == [L EXCEPT !.err = e, !.at = line]

\* lines 154-163: inputs[...] of the eight fields
StepInputs(L, inputs) ==
    IF InputFields \subseteq DOMAIN inputs
    THEN [L EXCEPT !.err = "none", !.at = 0]
    ELSE Fail(L, "KeyError", 156)

\* line 169
StepPredict(L, predicted) ==
    IF L.err # "none" THEN L
    ELSE IF predicted.err # "none" THEN Fail(L, predicted.err, 169)
    ELSE [L EXCEPT !.predicted_defender_costs = predicted.val]

\* lines 170-171
StepRates(L, inputs) ==
    IF L.err # "none" THEN L
    ELSE IF inputs["challenger_car"] \notin DOMAIN challenger_nationality
    THEN Fail([L EXCEPT !.dep_rate_defender =
                   Get(depreciation_rates, inputs["origin_defender"], F(1, 10))],
              "KeyError", 171)
    ELSE [L EXCEPT
            !.dep_rate_defender =
                Get(depreciation_rates, inputs["origin_defender"], F(1, 10)),
            !.dep_rate_challenger =
                Get(depreciation_rates,
                    challenger_nationality[inputs["challenger_car"]], F(1, 10))]

\* lines 173-174
StepResiduals(L, market_value, price) ==
    IF L.err # "none" THEN L
    ELSE [L EXCEPT
            !.residual_value_defender = ResidualValue(market_value, L.dep_rate_defender),
            !.residual_value_challenger = ResidualValue(price, L.dep_rate_challenger)]

\* lines 176-177
StepCashFlows(L, market_value, price, costs) ==
    IF L.err # "none" THEN L
    ELSE [L EXCEPT
            !.cash_flow_defender =
                CashFlowDefender(L.predicted_defender_costs, L.residual_value_defender),
            !.cash_flow_challenger =
                CashFlowChallenger(market_value, price, costs,
                                   L.residual_value_challenger)]

\* lines 179-180; the divisors 1.05 ** year are never 0
StepPV(L) ==
    IF L.err # "none" THEN L
    ELSE [L EXCEPT
            !.defender_pv = calculate_pv(L.cash_flow_defender, F(5, 100)).val,
            !.challenger_pv = calculate_pv(L.cash_flow_challenger, F(5, 100)).val]

\* defender_pv is a numpy.float64 when some predicted cost is one, that is,
\* was not replaced by the int 0 at line 37; the spreadsheet values and the
\* widget values are Python numbers
IsNumpy(predicted_defender_costs) ==
    \E k \in 1..5 : predicted_defender_costs[k] # I(0)

\* lines 182-184
StoreCostScores(L, cs) ==
    IF cs.err # "none"
    THEN Fail([L EXCEPT !.total_pv = cs.total_pv], cs.err, 183)
    ELSE [L EXCEPT !.total_pv = cs.total_pv,
                   !.cost_score_defender = cs.cost_score_defender,
                   !.cost_score_challenger = cs.cost_score_challenger]

StepCostScores(L) ==
    IF L.err # "none" THEN L
    ELSE StoreCostScores(L, CostScores(L.defender_pv, L.challenger_pv,
                                       IsNumpy(L.predicted_defender_costs)))

\* lines 165-167 and 186-193; the scores of line 165-167 cannot raise and are
\* used only here
StepWeightedScores(L, inputs, fuel_economy) ==
    IF L.err # "none" THEN L
    ELSE IF inputs["origin_defender"] \notin DOMAIN reliability_scores
    THEN Fail(L, "KeyError", 186)
    ELSE [L EXCEPT
            !.defender_weighted_score =
                calculate_weighted_score(L.cost_score_defender,
                    FDiv(I(inputs["style_score_defender_input"]), I(10)),
                    reliability_scores[inputs["origin_defender"]],
                    FDiv(inputs["defender_fuel_economy_kmpl"], I(30)),
                    safety_scores[inputs["origin_defender"]], inputs["weights"]),
            !.challenger_weighted_score =
                calculate_weighted_score(L.cost_score_challenger,
                    FDiv(I(inputs["style_score_challenger_input"]), I(10)),
                    reliability_scores[challenger_nationality[inputs["challenger_car"]]],
                    FDiv(fuel_economy, I(30)),
                    safety_scores[challenger_nationality[inputs["challenger_car"]]],
                    inputs["weights"])]

\* lines 195-204
StepRender(L) ==
    IF L.err # "none" THEN L
    ELSE [L EXCEPT !.recommendation =
            Recommendation(L.challenger_weighted_score, L.defender_weighted_score)]

\* lines 165-204 on a snapshot that has its eight fields
Compute(L, inputs, price, costs, fuel_economy) ==
    StepRender(
     StepWeightedScores(
      StepCostScores(
       StepPV(
        StepCashFlows(
         StepResiduals(
          StepRates(
           StepPredict(L, predict_operating_costs(inputs["defender_operating_costs"])),
           inputs),
          inputs["defender_market_value"], price),
         inputs["defender_market_value"], price, costs))),
      inputs, fuel_economy))

\* One run of the results branch on the snapshot `inputs` with the loaded
\* spreadsheets: the locals, the exception that ended the run, if any, and
\* the recommendation that was rendered.
Results(inputs, data) ==
    IF InputFields \subseteq DOMAIN inputs
    THEN Compute(StepInputs(NotRun, inputs), inputs,
                 data.buying_prices[inputs["challenger_car"]],
                 data.operating_costs[inputs["challenger_car"]],
                 data.fuel_economy[inputs["challenger_car"]])
    ELSE StepInputs(NotRun, inputs)

\* ------------------------------------------------------------ input sets
Categories == {"Japanese", "Korean", "American", "German"}

\* the weight sliders (0..10 each): the defaults, all zero, cost only
WeightChoices ==
    { [f \in Factors |-> IF f \in {"style", "cost"} THEN 4 ELSE 1],
      [f \in Factors |-> 0],
      [f \in Factors |-> IF f = "cost" THEN 10 ELSE 0] }

\* one row of each spreadsheet for car c
Sheet(c, price, costs, fe) ==
    [buying_prices |-> (c :> price), operating_costs |-> (c :> costs),
     fuel_economy |-> (c :> fe)]

Flat(v) == [k \in 1..5 |-> v]

\* spreadsheet contents (the files are not part of the program): an ordinary
\* row, a car that costs nothing, a row equal to the incumbent's own figures,
\* a car that challenger_nationality does not list
DataSets ==
    { Sheet("BMW 5 Series", I(12), Flat(I(2)), I(10)),
      Sheet("Toyota Camry", I(0), Flat(I(0)), I(15)),
      Sheet("Toyota Camry", I(39), Flat(I(4)), I(15)),
      Sheet("Tesla Model 3", I(8), Flat(I(1)), I(15)) }

MarketValues == {I(0), I(8), I(39)}
CostHistories ==
    {<<I(0), I(0), I(0)>>, <<I(4), I(4), I(4)>>, <<I(3), I(2), I(1)>>,
     <<I(1), I(2), I(3)>>}

\* what the widgets of the input page can return: number_input has
\* min_value 0.0, the sliders 0..10, the selectboxes their options
WidgetValues(d) ==
    [defender_market_value : MarketValues,
     defender_operating_costs : CostHistories,
     defender_fuel_economy_kmpl : {F(127, 10)},
     style_score_defender_input : {6},
     origin_defender : Categories,
     challenger_car : DOMAIN d.buying_prices,
     style_score_challenger_input : {6, 9},
     weights : WeightChoices]

\* ---------------------------------------------------------------- state
\* page:     st.session_state.page
\* inputs:   st.session_state.inputs
\* data:     the three spreadsheets as loaded
\* rendered: what the last script run showed: "input", "results", "exception"
\* out:      the locals of the results branch in the last script run
\* call:     a call of one function of the core: its name and arguments
\* ret:      what the call returned
VARIABLES page, inputs, data, rendered, out, call, ret

vars == <<page, inputs, data, rendered, out, call, ret>>

EmptyInputs == <<>>
NoCall == [fn |-> "none"]
Pending == [err |-> "pending"]

\* a fresh session after its first script run
Init ==
    /\ page = "input"
    /\ inputs = EmptyInputs
    /\ data \in DataSets
    /\ rendered = "input"
    /\ out = NotRun
    /\ call = NoCall
    /\ ret = Pending

\* a rerun on the input page without a click on "Get Recommendation"
InputRerun ==
    /\ page = "input"
    /\ rendered' = "input"
    /\ out' = NotRun
    /\ UNCHANGED <<page, inputs, data, call, ret>>

\* mutant: the click switches the page without storing the snapshot
GetRecommendationNoSnapshot ==
    /\ page = "input"
    /\ page' = "results"
    /\ rendered' = "input"
    /\ out' = NotRun
    /\ UNCHANGED <<inputs, data, call, ret>>

\* a rerun on the input page with "Get Recommendation" clicked
GetRecommendation ==
    /\ page = "input"
    /\ \E w \in WidgetValues(data) : inputs' = w
    /\ page' = "results"
    /\ rendered' = "input"
    /\ out' = NotRun
    /\ UNCHANGED <<data, call, ret>>

\* a rerun on the results page without a click on "Go Back"
ResultsRerun ==
    /\ page = "results"
    /\ out' = Results(inputs, data)
    /\ rendered' = IF out'.err = "none" THEN "results" ELSE "exception"
    /\ UNCHANGED <<page, inputs, data, call, ret>>

\* a rerun with "Go Back" clicked: the button exists only when the last run
\* reached line 231, and the branch runs again before the click is seen
GoBack ==
    /\ page = "results"
    /\ rendered = "results"
    /\ out' = Results(inputs, data)
    /\ rendered' = IF out'.err = "none" THEN "results" ELSE "exception"
    /\ page' = IF out'.err = "none" THEN "input" ELSE page
    /\ UNCHANGED <<inputs, data, call, ret>>

Next == InputRerun \/ GetRecommendation \/ ResultsRerun \/ GoBack

Spec == Init /\ [][Next]_vars

\* ------------------------------------------- the core, called on its own
\* The functions of the core applied to arguments a caller can pass, also
\* those the widgets of the input page cannot produce.
Third(k) == F(k, 3)

CostValues == {Third(k) : k \in 0..MaxCost}
PVValues == {Third(k) : k \in (-MaxPV)..MaxPV}
XValues == {Third(k) : k \in (-MaxX)..MaxX}
Rates == {F(5, 100), I(0), I(-1), F(1, 2), F(-1, 2), I(1), I(-2)}

PredictCalls ==
    [fn : {"predict_operating_costs"},
     operating_costs : (CostValues \X CostValues \X CostValues)
                       \cup {<<I(1), I(2)>>, <<I(1), I(2), I(3), I(4)>>}]

PVCalls ==
    [fn : {"calculate_pv"},
     cash_flows : {<<x, I(0), I(0), I(0), I(0), I(0)>> : x \in XValues}
                  \cup {<<>>, <<I(0), I(-1), I(-1), I(-1), I(-1), I(2)>>},
     discount_rate : Rates]

CostScoreCalls ==
    [fn : {"cost_scores"}, defender_pv : PVValues, challenger_pv : PVValues,
     np : BOOLEAN]

CoreInputs(d) ==
    [defender_market_value : {I(0), I(39)},
     defender_operating_costs : {<<I(0), I(0), I(0)>>, <<I(4), I(4), I(4)>>,
                                 <<I(1), I(2)>>},
     defender_fuel_economy_kmpl : {F(127, 10)},
     style_score_defender_input : {6},
     origin_defender : Categories \cup {"Martian"},
     challenger_car : DOMAIN d.buying_prices,
     style_score_challenger_input : {9},
     weights : WeightChoices]

ResultsCalls ==
    UNION {[fn : {"results"}, inputs : CoreInputs(d), data : {d}] : d \in DataSets}

Calls == PredictCalls \cup PVCalls \cup CostScoreCalls \cup ResultsCalls

InitCore ==
    /\ page = "input"
    /\ inputs = EmptyInputs
    /\ data = Sheet("BMW 5 Series", I(12), Flat(I(2)), I(10))
    /\ rendered = "input"
    /\ out = NotRun
    /\ call \in Calls
    /\ ret = Pending

CallPredict ==
    /\ call.fn = "predict_operating_costs" /\ ret = Pending
    /\ ret' = predict_operating_costs(call.operating_costs)
    /\ UNCHANGED <<page, inputs, data, rendered, out, call>>

CallPV ==
    /\ call.fn = "calculate_pv" /\ ret = Pending
    /\ ret' = calculate_pv(call.cash_flows, call.discount_rate)
    /\ UNCHANGED <<page, inputs, data, rendered, out, call>>

CallCostScores ==
    /\ call.fn = "cost_scores" /\ ret = Pending
    /\ ret' = CostScores(call.defender_pv, call.challenger_pv, call.np)
    /\ UNCHANGED <<page, inputs, data, rendered, out, call>>

CallResults ==
    /\ call.fn = "results" /\ ret = Pending
    /\ ret' = Results(call.inputs, call.data)
    /\ UNCHANGED <<page, inputs, data, rendered, out, call>>

NextCore == CallPredict \/ CallPV \/ CallCostScores \/ CallResults

SpecCore == InitCore /\ [][NextCore]_vars

\* ---------------------------------------------------------------- claims
\* x > y for floats, nan compared as Python compares it
Greater(x, y) ==
    /\ ~IsNaN(x) /\ ~IsNaN(y)
    /\ IF IsFinite(x) /\ IsFinite(y) THEN x[1] * y[2] > y[1] * x[2]
       ELSE (x = Inf /\ y # Inf) \/ (y = NInf /\ x # NInf)

Leq(x, y) == x[1] * y[2] <= y[1] * x[2]

\* C1: the recommendation is "replace" iff the challenger's weighted score is
\* strictly greater than the incumbent's; equal scores, and in particular all
\* five weights 0, give "keep".
C1_StrictRecommendation ==
    out.err = "none" =>
        /\ (out.recommendation = "replace")
              <=> Greater(out.challenger_weighted_score, out.defender_weighted_score)
        /\ out.recommendation \in {"replace", "keep"}
        /\ out.challenger_weighted_score = out.defender_weighted_score
              => out.recommendation = "keep"
        /\ (\A f \in Factors : inputs["weights"][f] = 0)
              => out.recommendation = "keep"

C1_Witness ==
    /\ out.err = "none"
    /\ \A f \in Factors : inputs["weights"][f] = 0
    /\ IsFinite(out.defender_weighted_score)
    /\ out.challenger_weighted_score = out.defender_weighted_score
    /\ out.recommendation = "keep"

\* C2: when both present values are zero the results computation ends in a
\* division-by-zero error, with no cost-score, no weighted score and no
\* recommendation.
C2_BothZeroRaises ==
    (out.err # "notrun" /\ out.defender_pv = I(0) /\ out.challenger_pv = I(0)) =>
        /\ out.err = "ZeroDivisionError"
        /\ out.cost_score_defender = None /\ out.cost_score_challenger = None
        /\ out.defender_weighted_score = None
        /\ out.challenger_weighted_score = None
        /\ out.recommendation = "none"

\* C3: for a category outside the four nationalities the decision computation
\* raises the unknown-category error, yields no result, and no lookup has put
\* a default in place of the category's value.
C3_UnknownCategoryNoDefault ==
    (/\ call.fn = "results" /\ ret.err # "pending"
     /\ call.inputs["origin_defender"] \notin Categories
     /\ Len(call.inputs["defender_operating_costs"]) = 3
     /\ call.inputs["challenger_car"] \in DOMAIN challenger_nationality) =>
        /\ ret.err = "KeyError"
        /\ ret.recommendation = "none"
        /\ ret.defender_weighted_score = None
        /\ ret.dep_rate_defender = None
        /\ ret.residual_value_defender = None

\* C4: with a + b # 0 and |a| # |b|, each cost-score is the opposing present
\* value over a + b, and the option with the smaller |present value| has the
\* strictly higher cost-score.
C4_LowerCostHigherScore ==
    (/\ call.fn = "cost_scores" /\ ret.err # "pending"
     /\ RAdd(call.defender_pv, call.challenger_pv) # I(0)
     /\ RAbs(call.defender_pv) # RAbs(call.challenger_pv)) =>
        /\ ret.err = "none"
        /\ ret.cost_score_defender
              = FDiv(call.challenger_pv, FAdd(call.defender_pv, call.challenger_pv))
        /\ ret.cost_score_challenger
              = FDiv(call.defender_pv, FAdd(call.defender_pv, call.challenger_pv))
        /\ IF RLt(RAbs(call.defender_pv), RAbs(call.challenger_pv))
           THEN Greater(ret.cost_score_defender, ret.cost_score_challenger)
           ELSE Greater(ret.cost_score_challenger, ret.cost_score_defender)

C4_Witness ==
    /\ call.fn = "cost_scores" /\ ret.err = "none"
    /\ call.defender_pv[1] < 0 /\ call.challenger_pv[1] > 0
    /\ RLt(RAbs(call.defender_pv), RAbs(call.challenger_pv))
    /\ Greater(ret.cost_score_defender, ret.cost_score_challenger)

\* C5 as claimed: for positive present values the two cost-scores add up to
\* exactly 1.
C5_SumExactlyOne ==
    (/\ call.fn = "cost_scores" /\ ret.err # "pending"
     /\ call.defender_pv[1] > 0 /\ call.challenger_pv[1] > 0) =>
        /\ ret.err = "none"
        /\ FAdd(ret.cost_score_defender, ret.cost_score_challenger) = I(1)

\* machine epsilon, 2^(1 - Prec)
Eps == Q(1, Pow2(Prec - 1))

\* C5 as amended: for positive present values the two cost-scores add up to
\* 1 within one machine epsilon.
C5_SumWithinEps ==
    (/\ call.fn = "cost_scores" /\ ret.err # "pending"
     /\ call.defender_pv[1] > 0 /\ call.challenger_pv[1] > 0) =>
        /\ ret.err = "none"
        /\ Leq(RAbs(RSub(FAdd(ret.cost_score_defender, ret.cost_score_challenger),
                         I(1))), Eps)

C5_Witness ==
    /\ call.fn = "cost_scores" /\ ret.err = "none"
    /\ call.defender_pv[1] > 0 /\ call.challenger_pv[1] > 0
    /\ call.defender_pv # call.challenger_pv
    /\ FAdd(ret.cost_score_defender, ret.cost_score_challenger) # I(1)

\* the least-squares line through (1,y1),(2,y2),(3,y3) at period x, exactly:
\* (2(y1+y2+y3) + 3(y3-y1)(x-2)) / 6
Line(y, x) ==
    RDiv(RAdd(RMul(I(2), RAdd(y[1], RAdd(y[2], y[3]))),
              RMul(I(3 * (x - 2)), RSub(y[3], y[1]))), I(6))

\* C6: for every 3-point history predict_operating_costs returns 5 values,
\* none negative: the fitted line at periods 4..8, clamped below at 0.
C6_FiveNonNegative ==
    (/\ call.fn = "predict_operating_costs" /\ ret.err # "pending"
     /\ Len(call.operating_costs) = 3) =>
        /\ ret.err = "none"
        /\ Len(ret.val) = 5
        /\ \A k \in 1..5 :
              /\ Leq(I(0), ret.val[k])
              /\ ret.val[k] = IF Leq(Line(call.operating_costs, k + 3), I(0))
                               THEN I(0)
                               ELSE Rnd(Line(call.operating_costs, k + 3))

C6_Witness ==
    /\ call.fn = "predict_operating_costs" /\ ret.err = "none"
    /\ RLt(call.operating_costs[3], call.operating_costs[1])
    /\ RLt(Line(call.operating_costs, 5), I(0))
    /\ RLt(I(0), ret.val[1])
    /\ ret.val[2] = I(0) /\ ret.val[5] = I(0)

IsPeriod0Only(cash_flows) ==
    /\ Len(cash_flows) = 6
    /\ \A k \in 2..6 : cash_flows[k] = I(0)

\* C8 as claimed: calculate_pv([X,0,0,0,0,0], r) returns exactly X for any X
\* and any discount rate r.
C8_Period0AnyRate ==
    (/\ call.fn = "calculate_pv" /\ ret.err # "pending"
     /\ IsPeriod0Only(call.cash_flows)) =>
        /\ ret.err = "none"
        /\ ret.val = call.cash_flows[1]

\* C8 as amended: calculate_pv([X,0,0,0,0,0], r) returns exactly X for any X
\* and any discount rate r other than -1.
C8_Period0RateNotMinusOne ==
    (/\ call.fn = "calculate_pv" /\ ret.err # "pending"
     /\ IsPeriod0Only(call.cash_flows)
     /\ call.discount_rate # I(-1)) =>
        /\ ret.err = "none"
        /\ ret.val = call.cash_flows[1]

C8_Witness ==
    /\ call.fn = "calculate_pv" /\ ret.err = "none"
    /\ IsPeriod0Only(call.cash_flows)
    /\ call.cash_flows[1] = Third(-5)
    /\ call.discount_rate = F(1, 2)
    /\ ret.val = Third(-5)

\* C9: both cash flows have 6 periods: period 0 is 0 (keep) or market value
\* minus buying price (replace), periods 1..4 are the negated operating costs
\* of years 1..4, period 5 is the negated year-5 cost plus the residual value.
C9_CashFlowShape ==
    (out.at = 0 \/ out.at > 177) =>
        LET price == data.buying_prices[inputs["challenger_car"]]
            costs == data.operating_costs[inputs["challenger_car"]]
            keep == out.cash_flow_defender
            replace == out.cash_flow_challenger
        IN  /\ Len(keep) = 6 /\ Len(replace) = 6
            /\ keep[1] = I(0)
            /\ replace[1] = Rnd(RSub(inputs["defender_market_value"], price))
            /\ \A k \in 1..4 :
                  /\ keep[k + 1] = RNeg(out.predicted_defender_costs[k])
                  /\ replace[k + 1] = RNeg(costs[k])
            /\ keep[6] = Rnd(RSub(out.residual_value_defender,
                                   out.predicted_defender_costs[5]))
            /\ replace[6] = Rnd(RSub(out.residual_value_challenger, costs[5]))

C9_Witness ==
    /\ out.err = "none"
    /\ Len(out.cash_flow_challenger) = 6
    /\ RLt(I(0), out.cash_flow_challenger[1])
    /\ RLt(I(0), out.residual_value_defender)
    /\ RLt(out.cash_flow_defender[2], I(0))

\* C10: whenever the page flag is "results" the snapshot holds the eight
\* fields of the last "Get Recommendation" click; the results branch never
\* runs on the empty initial inputs and never changes the snapshot.
C10_SnapshotComplete ==
    /\ [](/\ page = "results" => DOMAIN inputs = InputFields
          /\ out.err # "notrun" => (DOMAIN inputs = InputFields /\ out.at # 156))
    /\ [][page = "results" => inputs' = inputs]_vars

C10_Witness ==
    /\ page = "results"
    /\ rendered = "results"
    /\ out.err = "none"
    /\ DOMAIN inputs = InputFields
====
